---- MODULE Spec2Model ----
(***************************************************************************)
(* Model of src/main.py: the two FastMCP tools search_device_manual and    *)
(* get_repair_steps of the Fix-OS server.  Each tool invocation is a       *)
(* coroutine; the event loop interleaves invocations at their await        *)
(* points (entering the client context, client.get, leaving the context).  *)
(*                                                                         *)
(* Python values are encoded as tagged records:                            *)
(*   [t |-> "none"], [t |-> "int", v |-> n], [t |-> "str", v |-> s],       *)
(*   [t |-> "list", v |-> <<...>>], [t |-> "dict", v |-> [key |-> value]]  *)
(* and a raised exception as [t |-> "raise", type, msg, status].           *)
(***************************************************************************)
EXTENDS Integers, Sequences, FiniteSets, TLC

VARIABLES pc, op, arg, client, resp, pending, results, outcome, log, clients

vars == <<pc, op, arg, client, resp, pending, results, outcome, log, clients>>

(***************************************************************************)
(* Bounds of the model.                                                    *)
(***************************************************************************)
NProcs == 2
MaxItems == 2
MaxSteps == 2
MaxLines == 3

Procs == 1..NProcs

(***************************************************************************)
(* Module-level constants of main.py.                                      *)
(***************************************************************************)
BASE_URL == "https://www.ifixit.com/api/2.0"
HEADERS ==
  ("User-Agent" :> "Fix-OS-Hackathon/1.0 (Student Project)")
    @@ ("Accept" :> "application/json")
API_TIMEOUT == 30
MAX_RETRIES == 3

(***************************************************************************)
(* Python values.                                                          *)
(***************************************************************************)
None_ == [t |-> "none"]
I(n) == [t |-> "int", v |-> n]
S(s) == [t |-> "str", v |-> s]
L(q) == [t |-> "list", v |-> q]
D(r) == [t |-> "dict", v |-> r]
EmptyDict == D(<<>>)

Raise(type, msg) == [t |-> "raise", type |-> type, msg |-> msg, status |-> 0]
IsRaise(x) == x.t = "raise"

\* type(x).__name__
TypeName(x) ==
  CASE x.t = "none" -> "NoneType"
    [] x.t = "int" -> "int"
    [] x.t = "str" -> "str"
    [] x.t = "list" -> "list"
    [] x.t = "dict" -> "dict"

\* bool(x)
Truthy(x) ==
  CASE x.t = "none" -> FALSE
    [] x.t = "int" -> x.v # 0
    [] x.t = "str" -> x.v # ""
    [] x.t = "list" -> Len(x.v) > 0
    [] x.t = "dict" -> DOMAIN x.v # {}

\* d.get(k, dflt); a raised d propagates
Get(d, k, dflt) ==
  IF IsRaise(d) THEN d
  ELSE IF d.t = "dict" THEN (IF k \in DOMAIN d.v THEN d.v[k] ELSE dflt)
  ELSE Raise("AttributeError",
             "'" \o TypeName(d) \o "' object has no attribute 'get'")

\* x[0]
Index0(x) ==
  IF IsRaise(x) THEN x
  ELSE CASE x.t = "list" ->
              IF Len(x.v) > 0 THEN x.v[1]
              ELSE Raise("IndexError", "list index out of range")
         [] x.t = "str" ->
              IF Len(x.v) > 0 THEN S(SubSeq(x.v, 1, 1))
              ELSE Raise("IndexError", "string index out of range")
         [] x.t = "dict" -> Raise("KeyError", "0")
         [] OTHER -> Raise("TypeError",
                           "'" \o TypeName(x) \o "' object is not subscriptable")

\* the elements "for e in x" visits (lists, strings), or the TypeError
Iter(x) ==
  IF IsRaise(x) THEN x
  ELSE CASE x.t = "list" -> L(x.v)
         [] x.t = "str" -> L([i \in 1..Len(x.v) |-> S(SubSeq(x.v, i, i))])
         [] x.t \in {"none", "int"} ->
              Raise("TypeError", "'" \o TypeName(x) \o "' object is not iterable")

\* index of the first raised element of a sequence, 0 if none
FirstRaise(q) ==
  IF \E i \in 1..Len(q) : IsRaise(q[i])
  THEN CHOOSE i \in 1..Len(q) : IsRaise(q[i]) /\ \A j \in 1..(i-1) : ~IsRaise(q[j])
  ELSE 0

\* a list built element by element: the first exception aborts the build
ListOrRaise(q) == IF FirstRaise(q) = 0 THEN L(q) ELSE q[FirstRaise(q)]

(***************************************************************************)
(* Strings.                                                                *)
(***************************************************************************)
IsSpace(c) == c \in {" ", "\t", "\n"}

RECURSIVE LStrip(_)
LStrip(s) ==
  IF Len(s) > 0 /\ IsSpace(SubSeq(s, 1, 1)) THEN LStrip(SubSeq(s, 2, Len(s))) ELSE s

RECURSIVE RStrip(_)
RStrip(s) ==
  IF Len(s) > 0 /\ IsSpace(SubSeq(s, Len(s), Len(s)))
  THEN RStrip(SubSeq(s, 1, Len(s) - 1)) ELSE s

\* str.strip()
Strip(s) == RStrip(LStrip(s))

\* sep.join(q) for a sequence q of strings
RECURSIVE JoinStr(_, _)
JoinStr(sep, q) ==
  IF Len(q) = 0 THEN ""
  ELSE IF Len(q) = 1 THEN q[1]
  ELSE q[1] \o sep \o JoinStr(sep, Tail(q))

\* sep.join(q) for a sequence q of Python values: TypeError on a non-string
Join(sep, q) ==
  IF \E i \in 1..Len(q) : q[i].t # "str"
  THEN LET i == CHOOSE i \in 1..Len(q) :
                  q[i].t # "str" /\ \A j \in 1..(i-1) : q[j].t = "str"
       IN Raise("TypeError", "sequence item " \o ToString(i - 1)
                  \o ": expected str instance, " \o TypeName(q[i]) \o " found")
  ELSE S(JoinStr(sep, [i \in 1..Len(q) |-> q[i].v]))

\* a dict the code builds, with its insertion order
OD(keys, r) == [t |-> "dict", v |-> r, keys |-> keys]

\* str(x) / repr(x) of the values the tools build (strings without quotes)
RECURSIVE Repr(_)
Repr(x) ==
  CASE x.t = "none" -> "None"
    [] x.t = "int" -> ToString(x.v)
    [] x.t = "str" -> "'" \o x.v \o "'"
    [] x.t = "list" -> "[" \o JoinStr(", ", [i \in 1..Len(x.v) |-> Repr(x.v[i])]) \o "]"
    [] x.t = "dict" ->
         "{" \o JoinStr(", ", [i \in 1..Len(x.keys) |->
                  "'" \o x.keys[i] \o "': " \o Repr(x.v[x.keys[i]])]) \o "}"

(***************************************************************************)
(* Response shaping of search_device_manual.                               *)
(***************************************************************************)
SummaryKeys == <<"guide_id", "title", "summary", "image_url">>

\* the guide_info dict of one item
GuideInfo(item) ==
  LET f == ListOrRaise(<<Get(item, "guideid", None_),
                        Get(item, "title", None_),
                        Get(item, "summary", None_),
                        Get(Get(item, "image", EmptyDict), "standard", None_)>>)
  IN IF IsRaise(f) THEN f
     ELSE OD(SummaryKeys, [guide_id |-> f.v[1], title |-> f.v[2],
                           summary |-> f.v[3], image_url |-> f.v[4]])

\* ShapeSearch with the results handed back in reverse order
ShapeSearch_Reversed(data) ==
  LET it == Iter(Get(data, "results", L(<<>>)))
  IN IF IsRaise(it) THEN it
     ELSE ListOrRaise([i \in 1..Len(it.v) |-> GuideInfo(it.v[Len(it.v) + 1 - i])])

\* the results list built by the for loop
ShapeSearch(data) ==
  LET it == Iter(Get(data, "results", L(<<>>)))
  IN IF IsRaise(it) THEN it
     ELSE ListOrRaise([i \in 1..Len(it.v) |-> GuideInfo(it.v[i])])

(***************************************************************************)
(* Response shaping of get_repair_steps.                                   *)
(***************************************************************************)
\* [e.get(key) for e in src if e.get(key)]
TruthyFields(src, key) ==
  LET it == Iter(src)
  IN IF IsRaise(it) THEN it
     ELSE LET f == ListOrRaise([i \in 1..Len(it.v) |-> Get(it.v[i], key, None_)])
          IN IF IsRaise(f) THEN f ELSE L(SelectSeq(f.v, Truthy))

ToolsRequired(data) == TruthyFields(Get(data, "tools", L(<<>>)), "text")

PartsRequired(data) == TruthyFields(Get(data, "parts", L(<<>>)), "text")

\* Instruction without the "if line.get('text_raw')" filter on empty strings
Instruction_KeepEmpty(step) ==
  LET it == Iter(Get(step, "lines", L(<<>>)))
  IN IF IsRaise(it) THEN it
     ELSE LET f == ListOrRaise([i \in 1..Len(it.v) |-> Get(it.v[i], "text_raw", None_)])
          IN IF IsRaise(f) THEN f
             ELSE Join(" ", SelectSeq(f.v, LAMBDA x : x.t # "none"))

Instruction(step) ==
  LET f == TruthyFields(Get(step, "lines", L(<<>>)), "text_raw")
  IN IF IsRaise(f) THEN f ELSE Join(" ", f.v)

Image(step) ==
  Get(Index0(Get(Get(step, "media", EmptyDict), "data", L(<<EmptyDict>>))),
      "standard", None_)

StepKeys == <<"step_number", "instruction", "image">>

ShapeStep(step) ==
  LET f == ListOrRaise(<<Get(step, "orderby", None_), Instruction(step), Image(step)>>)
  IN IF IsRaise(f) THEN f
     ELSE OD(StepKeys, [step_number |-> f.v[1], instruction |-> f.v[2],
                        image |-> f.v[3]])

Steps(data) ==
  LET it == Iter(Get(data, "steps", L(<<>>)))
  IN IF IsRaise(it) THEN it
     ELSE ListOrRaise([i \in 1..Len(it.v) |-> ShapeStep(it.v[i])])

GuideKeys == <<"title", "difficulty", "tools_required", "parts_required", "steps">>

\* the guide_data dict
ShapeGuide(data) ==
  LET f == ListOrRaise(<<Get(data, "title", None_), Get(data, "difficulty", None_),
                        ToolsRequired(data), PartsRequired(data), Steps(data)>>)
  IN IF IsRaise(f) THEN f
     ELSE OD(GuideKeys, [title |-> f.v[1], difficulty |-> f.v[2],
                         tools_required |-> f.v[3], parts_required |-> f.v[4],
                         steps |-> f.v[5]])

(***************************************************************************)
(* The two tools, as the pieces between their await points.                *)
(***************************************************************************)
\* str(x) inside an f-string
Str(x) == IF x.t = "str" THEN x.v ELSE Repr(x)

Line(level, msg) == [level |-> level, msg |-> msg]

Return(s) == [t |-> "return", v |-> s]
NoValue == [t |-> "unset"]

\* what client.get produces: a raised exception or a response
Exc(type, msg) == [t |-> "exc", e |-> Raise(type, msg)]
Response(status, body) == [t |-> "response", status |-> status, body |-> body]

TimeoutTypes == {"ConnectTimeout", "ReadTimeout", "WriteTimeout", "PoolTimeout"}
\* the exception classes that derive from Exception
ExceptionTypes ==
  TimeoutTypes \cup {"HTTPStatusError", "ConnectError", "RuntimeError",
                     "JSONDecodeError", "AttributeError", "TypeError",
                     "IndexError", "KeyError"}

IsTimeoutException(e) == e.type \in TimeoutTypes
IsHTTPStatusError(e) == e.type = "HTTPStatusError"
IsException(e) == e.type \in ExceptionTypes

\* response.raise_for_status()
RaiseForStatus(r) ==
  IF r.status >= 200 /\ r.status <= 299 THEN None_
  ELSE [t |-> "raise", type |-> "HTTPStatusError", msg |-> "", status |-> r.status]

\* SearchInvalid without the strip() test
SearchInvalid_NoStrip(a) == ~Truthy(a)

\* input validation
SearchInvalid(a) == ~Truthy(a) \/ ~Truthy(S(Strip(a.v)))

GuideInvalid(a) == a.t # "int" \/ a.v <= 0

Invalid(o, a) == IF o = "search" THEN SearchInvalid(a) ELSE GuideInvalid(a)

RejectText(o) ==
  IF o = "search" THEN "Error: Device name cannot be empty"
  ELSE "Error: guide_id must be a positive integer"

RejectLine(o, a) ==
  IF o = "search" THEN Line("WARNING", "Empty device name provided")
  ELSE Line("WARNING", "Invalid guide_id provided: " \o Str(a))

\* the argument as the rest of the tool uses it
Clean(o, a) == IF o = "search" THEN S(Strip(a.v)) ELSE a

Url(o, a) ==
  IF o = "search"
  THEN BASE_URL \o "/suggest/" \o Clean(o, a).v \o "?doctypes=guide&limit=5"
  ELSE BASE_URL \o "/guides/" \o Str(a)

EntryLine(o, a) ==
  IF o = "search" THEN Line("INFO", "Searching for device: " \o Clean(o, a).v)
  ELSE Line("INFO", "Fetching repair steps for guide: " \o Str(a))

\* the statements after "response = await client.get(...)" inside the with
\* block: the exception they raise, or the shaped value
Shaped(o, r) ==
  IF r.t = "exc" THEN r.e
  ELSE IF IsRaise(RaiseForStatus(r)) THEN RaiseForStatus(r)
  ELSE IF IsRaise(r.body) THEN r.body
  ELSE IF o = "search" THEN ShapeSearch(r.body) ELSE ShapeGuide(r.body)

SuccessLine(o, a, shaped) ==
  IF o = "search"
  THEN Line("INFO", "Found " \o ToString(Len(shaped.v)) \o " results for '"
                      \o Clean(o, a).v \o "'")
  ELSE Line("INFO", "Successfully fetched guide " \o Str(a) \o " with "
                      \o ToString(Len(Get(shaped, "steps", L(<<>>)).v)) \o " steps")

TimeoutText ==
  "Error: Request timed out after " \o ToString(API_TIMEOUT)
    \o " seconds. Please try again."

\* SearchHandle with no logging in the timeout clause
SearchHandle_SilentTimeout(a, e) ==
  IF IsTimeoutException(e)
  THEN [out |-> Return(TimeoutText), log |-> <<>>]
  ELSE IF IsHTTPStatusError(e)
  THEN [out |-> Return("Error: API returned status " \o ToString(e.status)),
        log |-> <<Line("ERROR", "HTTP error " \o ToString(e.status)
                         \o " while searching for " \o Clean("search", a).v)>>]
  ELSE [out |-> Return("Error searching for device: " \o e.msg),
        log |-> <<Line("ERROR", "Unexpected error during device search: "
                         \o e.type \o ": " \o e.msg)>>]

\* the except clauses of search_device_manual: the outcome and the line logged
SearchHandle(a, e) ==
  IF IsTimeoutException(e)
  THEN [out |-> Return(TimeoutText),
        log |-> <<Line("ERROR", "Timeout while searching for " \o Clean("search", a).v)>>]
  ELSE IF IsHTTPStatusError(e)
  THEN [out |-> Return("Error: API returned status " \o ToString(e.status)),
        log |-> <<Line("ERROR", "HTTP error " \o ToString(e.status)
                         \o " while searching for " \o Clean("search", a).v)>>]
  ELSE IF IsException(e)
  THEN [out |-> Return("Error searching for device: " \o e.msg),
        log |-> <<Line("ERROR", "Unexpected error during device search: "
                         \o e.type \o ": " \o e.msg)>>]
  ELSE [out |-> e, log |-> <<>>]

\* GuideHandle without the 404 special case
GuideHandle_No404(a, e) ==
  IF IsHTTPStatusError(e)
  THEN [out |-> Return("Error: API returned status " \o ToString(e.status)),
        log |-> <<Line("ERROR", "HTTP error " \o ToString(e.status)
                         \o " for guide " \o Str(a))>>]
  ELSE IF IsTimeoutException(e)
  THEN [out |-> Return(TimeoutText),
        log |-> <<Line("ERROR", "Timeout while fetching guide " \o Str(a))>>]
  ELSE [out |-> Return("Error fetching repair steps: " \o e.msg),
        log |-> <<Line("ERROR", "Unexpected error fetching guide " \o Str(a)
                         \o ": " \o e.type \o ": " \o e.msg)>>]

\* GuideHandle without the final "except Exception" clause
GuideHandle_NoCatchAll(a, e) ==
  IF IsHTTPStatusError(e)
  THEN IF e.status = 404
       THEN [out |-> Return("Error: Guide " \o Str(a) \o " not found"),
             log |-> <<Line("WARNING", "Guide not found: " \o Str(a))>>]
       ELSE [out |-> Return("Error: API returned status " \o ToString(e.status)),
             log |-> <<Line("ERROR", "HTTP error " \o ToString(e.status)
                              \o " for guide " \o Str(a))>>]
  ELSE IF IsTimeoutException(e)
  THEN [out |-> Return(TimeoutText),
        log |-> <<Line("ERROR", "Timeout while fetching guide " \o Str(a))>>]
  ELSE [out |-> e, log |-> <<>>]

\* the except clauses of get_repair_steps
GuideHandle(a, e) ==
  IF IsHTTPStatusError(e)
  THEN IF e.status = 404
       THEN [out |-> Return("Error: Guide " \o Str(a) \o " not found"),
             log |-> <<Line("WARNING", "Guide not found: " \o Str(a))>>]
       ELSE [out |-> Return("Error: API returned status " \o ToString(e.status)),
             log |-> <<Line("ERROR", "HTTP error " \o ToString(e.status)
                              \o " for guide " \o Str(a))>>]
  ELSE IF IsTimeoutException(e)
  THEN [out |-> Return(TimeoutText),
        log |-> <<Line("ERROR", "Timeout while fetching guide " \o Str(a))>>]
  ELSE IF IsException(e)
  THEN [out |-> Return("Error fetching repair steps: " \o e.msg),
        log |-> <<Line("ERROR", "Unexpected error fetching guide " \o Str(a)
                         \o ": " \o e.type \o ": " \o e.msg)>>]
  ELSE [out |-> e, log |-> <<>>]

Handle(o, a, e) == IF o = "search" THEN SearchHandle(a, e) ELSE GuideHandle(a, e)

(***************************************************************************)
(* State.                                                                  *)
(*   pc[p]       position of invocation p                                  *)
(*   op[p], arg[p]  the tool invoked and its argument                      *)
(*   client[p]   the local "client" (index into clients, 0 when unbound)   *)
(*   resp[p]     what client.get produced                                  *)
(*   pending[p]  the return value or exception leaving the with block      *)
(*   results[p]  the local "results" / "guide_data"                        *)
(*   outcome[p]  what the invocation handed to the host                    *)
(*   log[p]      the lines invocation p wrote to the logger, in order      *)
(*   clients     every httpx.AsyncClient constructed, in order             *)
(***************************************************************************)
Init ==
  /\ pc = [p \in Procs |-> "idle"]
  /\ op = [p \in Procs |-> "none"]
  /\ arg = [p \in Procs |-> None_]
  /\ client = [p \in Procs |-> 0]
  /\ resp = [p \in Procs |-> NoValue]
  /\ pending = [p \in Procs |-> NoValue]
  /\ results = [p \in Procs |-> NoValue]
  /\ outcome = [p \in Procs |-> NoValue]
  /\ log = [p \in Procs |-> <<>>]
  /\ clients = <<>>

\* async with httpx.AsyncClient(timeout=API_TIMEOUT) as client
NewClient(p, cs) ==
  [pool |-> Append(cs, [owner |-> p, state |-> "open", timeout |-> API_TIMEOUT,
                        requests |-> <<>>]),
   ref |-> Len(cs) + 1]

\* the host calls the tool: validation, entry log, client construction
Invoke(p, o, a) ==
  /\ pc[p] = "idle"
  /\ op' = [op EXCEPT ![p] = o]
  /\ arg' = [arg EXCEPT ![p] = a]
  /\ IF Invalid(o, a)
     THEN /\ log' = [log EXCEPT ![p] = Append(@, RejectLine(o, a))]
          /\ outcome' = [outcome EXCEPT ![p] = Return(RejectText(o))]
          /\ pc' = [pc EXCEPT ![p] = "returned"]
          /\ UNCHANGED <<client, clients>>
     ELSE /\ log' = [log EXCEPT ![p] = Append(@, EntryLine(o, a))]
          /\ clients' = NewClient(p, clients).pool
          /\ client' = [client EXCEPT ![p] = NewClient(p, clients).ref]
          /\ pc' = [pc EXCEPT ![p] = "entered"]
          /\ UNCHANGED outcome
  /\ UNCHANGED <<resp, pending, results>>

\* SendGet that issues the request a second time
SendGet_Twice(p) ==
  /\ pc[p] = "entered"
  /\ clients' = [clients EXCEPT ![client[p]].requests =
                   @ \o <<[by |-> p, url |-> Url(op[p], arg[p]), headers |-> HEADERS],
                          [by |-> p, url |-> Url(op[p], arg[p]), headers |-> HEADERS]>>]
  /\ pc' = [pc EXCEPT ![p] = "awaiting"]
  /\ UNCHANGED <<op, arg, client, resp, pending, results, outcome, log>>

\* await client.get(url, headers=HEADERS): the request goes out, unless the
\* client is already closed
SendGet(p) ==
  /\ pc[p] = "entered"
  /\ IF clients[client[p]].state = "open"
     THEN /\ clients' = [clients EXCEPT ![client[p]].requests =
                           Append(@, [by |-> p, url |-> Url(op[p], arg[p]),
                                      headers |-> HEADERS])]
          /\ pc' = [pc EXCEPT ![p] = "awaiting"]
          /\ UNCHANGED pending
     ELSE /\ pending' = [pending EXCEPT ![p] =
                Raise("RuntimeError",
                      "Cannot send a request, as the client has been closed.")]
          /\ pc' = [pc EXCEPT ![p] = "closing"]
          /\ UNCHANGED clients
  /\ UNCHANGED <<op, arg, client, resp, results, outcome, log>>

\* Receive that keeps the response in one slot shared by all invocations
Receive_SharedSlot(p, r) ==
  /\ pc[p] = "awaiting"
  /\ resp' = [q \in Procs |-> r]
  /\ LET sh == Shaped(op[p], r)
     IN IF IsRaise(sh)
        THEN /\ pending' = [pending EXCEPT ![p] = sh]
             /\ UNCHANGED <<results, log>>
        ELSE /\ results' = [results EXCEPT ![p] = sh]
             /\ log' = [log EXCEPT ![p] = Append(@, SuccessLine(op[p], arg[p], sh))]
             /\ pending' = [pending EXCEPT ![p] = Return(Repr(sh))]
  /\ pc' = [pc EXCEPT ![p] = "closing"]
  /\ UNCHANGED <<op, arg, client, outcome, clients>>

\* client.get completes with r; the rest of the with block runs
Receive(p, r) ==
  /\ pc[p] = "awaiting"
  /\ resp' = [resp EXCEPT ![p] = r]
  /\ LET sh == Shaped(op[p], r)
     IN IF IsRaise(sh)
        THEN /\ pending' = [pending EXCEPT ![p] = sh]
             /\ UNCHANGED <<results, log>>
        ELSE /\ results' = [results EXCEPT ![p] = sh]
             /\ log' = [log EXCEPT ![p] = Append(@, SuccessLine(op[p], arg[p], sh))]
             /\ pending' = [pending EXCEPT ![p] = Return(Repr(sh))]
  /\ pc' = [pc EXCEPT ![p] = "closing"]
  /\ UNCHANGED <<op, arg, client, outcome, clients>>

\* Close that releases the client only when the block ended without exception
Close_LeakOnError(p) ==
  /\ pc[p] = "closing"
  /\ IF IsRaise(pending[p])
     THEN /\ outcome' = [outcome EXCEPT ![p] = Handle(op[p], arg[p], pending[p]).out]
          /\ log' = [log EXCEPT ![p] = @ \o Handle(op[p], arg[p], pending[p]).log]
          /\ UNCHANGED clients
     ELSE /\ outcome' = [outcome EXCEPT ![p] = pending[p]]
          /\ clients' = [clients EXCEPT ![client[p]].state = "closed"]
          /\ UNCHANGED log
  /\ pc' = [pc EXCEPT ![p] = "returned"]
  /\ UNCHANGED <<op, arg, client, resp, pending, results>>

\* the with block is left: the client is closed, then the value is returned
\* or the exception meets the except clauses
Close(p) ==
  /\ pc[p] = "closing"
  /\ clients' = [clients EXCEPT ![client[p]].state = "closed"]
  /\ IF IsRaise(pending[p])
     THEN /\ outcome' = [outcome EXCEPT ![p] = Handle(op[p], arg[p], pending[p]).out]
          /\ log' = [log EXCEPT ![p] = @ \o Handle(op[p], arg[p], pending[p]).log]
     ELSE /\ outcome' = [outcome EXCEPT ![p] = pending[p]]
          /\ UNCHANGED log
  /\ pc' = [pc EXCEPT ![p] = "returned"]
  /\ UNCHANGED <<op, arg, client, resp, pending, results>>

(***************************************************************************)
(* Inputs: the arguments the host passes and the outcomes of the request.  *)
(***************************************************************************)
Ops == {"search", "guide"}

SeqsUpTo(E, n) == UNION {[1..k -> E] : k \in 0..n}

\* a JSON object from a record of optional members
Absent == [t |-> "absent"]
Obj(f) == D([k \in {j \in DOMAIN f : f[j].t # "absent"} |-> f[k]])

JSONError == Raise("JSONDecodeError", "Expecting value: line 1 column 1 (char 0)")

DeviceNames == {S(""), S(" "), S(" \t "), S("iPhone"), S(" iPhone 14 ")}
GuideIds == {I(-5), I(0), I(1), I(123), S("7")}

Args(o) == IF o = "search" THEN DeviceNames ELSE GuideIds

Images == {Absent, None_, EmptyDict, D([standard |-> S("https://img/1.jpg")])}

Items ==
  {None_}
  \cup {Obj([guideid |-> I(101), title |-> S("Screen"), summary |-> S("swap"),
             image |-> im]) : im \in Images}
  \cup {Obj([guideid |-> I(202), title |-> S("Battery"), summary |-> Absent,
             image |-> im]) : im \in Images}

SearchBodies ==
  {JSONError, L(<<>>), EmptyDict, D([results |-> None_])}
  \cup {D([results |-> L(q)]) : q \in SeqsUpTo(Items, MaxItems)}

TextLines ==
  {EmptyDict, D([text_raw |-> None_]), D([text_raw |-> S("")]),
   D([text_raw |-> S("Remove")]), D([text_raw |-> S("the screw")])}

Medias ==
  {Absent, None_, EmptyDict, D([data |-> L(<<>>)]), D([data |-> L(<<EmptyDict>>)]),
   D([data |-> L(<<D([standard |-> S("a.jpg")])>>)]),
   D([data |-> L(<<D([standard |-> S("a.jpg")]), D([standard |-> S("b.jpg")])>>)])}

MediaSteps ==
  {Obj([orderby |-> I(1), lines |-> ln, media |-> m]) :
     ln \in {Absent, L(<<D([text_raw |-> S("Remove")])>>)}, m \in Medias}

LineSteps ==
  {Obj([orderby |-> I(2), lines |-> ln, media |-> Absent]) :
     ln \in {None_} \cup {L(q) : q \in SeqsUpTo(TextLines, MaxLines)}}

Texts ==
  {Absent, L(<<>>),
   L(<<D([text |-> S("Spudger")]), EmptyDict, D([text |-> S("")]),
       D([text |-> S("Tweezers")])>>)}

GuideBodies ==
  {JSONError, L(<<>>), EmptyDict}
  \cup {Obj([title |-> S("Fix"), difficulty |-> S("Easy"), tools |-> tl,
             parts |-> pt, steps |-> Absent]) : tl \in Texts, pt \in Texts}
  \cup {Obj([title |-> S("Fix"), difficulty |-> Absent, tools |-> Absent,
             parts |-> Absent, steps |-> L(q)]) : q \in SeqsUpTo(MediaSteps, MaxSteps)}
  \cup {Obj([title |-> Absent, difficulty |-> S("Easy"), tools |-> Absent,
             parts |-> Absent, steps |-> L(<<st>>)]) : st \in LineSteps}

Bodies(o) == IF o = "search" THEN SearchBodies ELSE GuideBodies

Faults ==
  {Exc("ReadTimeout", ""), Exc("ConnectTimeout", ""),
   Exc("ConnectError", "All connection attempts failed")}

Responses(o) ==
  Faults
  \cup {Response(c, JSONError) : c \in {204, 301, 404, 500}}
  \cup {Response(200, b) : b \in Bodies(o)}
  \cup {Response(201, EmptyDict)}

\* the inputs of the interleaved runs
FewArgs(o) == IF o = "search" THEN {S(""), S(" iPhone 14 ")} ELSE {I(0), I(7)}

FewBodies(o) ==
  IF o = "search"
  THEN {JSONError, L(<<>>),
        D([results |-> L(<<Obj([guideid |-> I(101), title |-> S("Screen"),
                                summary |-> S("swap"), image |-> Absent])>>)])}
  ELSE {JSONError, L(<<>>),
        Obj([title |-> S("Fix"), difficulty |-> Absent, tools |-> Absent,
             parts |-> Absent,
             steps |-> L(<<Obj([orderby |-> I(1), lines |-> Absent,
                                media |-> Absent])>>)])}

FewResponses(o) ==
  {Exc("ReadTimeout", ""), Exc("ConnectError", "All connection attempts failed"),
   Response(404, JSONError), Response(500, JSONError)}
  \cup {Response(200, b) : b \in FewBodies(o)}

(***************************************************************************)
(* Specifications.  Spec: the host runs NProcs invocations interleaved at  *)
(* their await points.  SpecSeq: one invocation, every modelled argument   *)
(* and response.                                                           *)
(***************************************************************************)
Next ==
  \E p \in Procs :
    \/ \E o \in Ops : \E a \in FewArgs(o) : Invoke(p, o, a)
    \/ SendGet(p)
    \/ \E r \in FewResponses(op[p]) : Receive(p, r)
    \/ Close(p)

Spec == Init /\ [][Next]_vars

NextSeq ==
  \/ \E o \in Ops : \E a \in Args(o) : Invoke(1, o, a)
  \/ SendGet(1)
  \/ \E r \in Responses(op[1]) : Receive(1, r)
  \/ Close(1)

SpecSeq == Init /\ [][NextSeq]_vars

(***************************************************************************)
(* Vocabulary of the properties.                                           *)
(***************************************************************************)
Returned(p) == pc[p] = "returned"

StartsWith(s, pre) == Len(s) >= Len(pre) /\ SubSeq(s, 1, Len(pre)) = pre
EndsWith(s, suf) == Len(s) >= Len(suf) /\ SubSeq(s, Len(s) - Len(suf) + 1, Len(s)) = suf
Contains(s, sub) ==
  \E i \in 1..(Len(s) - Len(sub) + 1) : SubSeq(s, i, i + Len(sub) - 1) = sub

OnlyWhitespace(s) == \A i \in 1..Len(s) : SubSeq(s, i, i) \in {" ", "\t", "\n"}

\* the argument fails the validation the specification describes
Rejectable(p) ==
  \/ op[p] = "search" /\ OnlyWhitespace(arg[p].v)
  \/ op[p] = "guide" /\ arg[p].t = "int" /\ arg[p].v <= 0

\* the argument passes it
Acceptable(p) ==
  \/ op[p] = "search" /\ ~OnlyWhitespace(arg[p].v)
  \/ op[p] = "guide" /\ arg[p].t = "int" /\ arg[p].v > 0

\* the GET requests invocation p issued, over every client
RequestsBy(p) ==
  UNION {{<<c, i>> : i \in {j \in 1..Len(clients[c].requests) :
                              clients[c].requests[j].by = p}} :
         c \in 1..Len(clients)}

Got2xx(p) == resp[p].t = "response" /\ resp[p].status >= 200 /\ resp[p].status <= 299
Got200(p) == resp[p].t = "response" /\ resp[p].status = 200
GotStatus(p, c) == resp[p].t = "response" /\ resp[p].status = c
GotTimeout(p) == resp[p].t = "exc" /\ resp[p].e.type \in TimeoutTypes
GotFault(p) == resp[p].t = "exc" /\ resp[p].e.type \notin TimeoutTypes

Has(d, k) == d.t = "dict" /\ k \in DOMAIN d.v

(***************************************************************************)
(* C1: every invocation of either tool ends by returning a text string;    *)
(* whatever the request produced (validation failure, timeout, non-2xx     *)
(* status, transport fault, unparseable body, payload the reshaping fails  *)
(* on), no exception leaves the tool.                                      *)
(***************************************************************************)
C1_EveryCallReturnsText ==
  \A p \in Procs :
    /\ outcome[p].t # "raise"
    /\ Returned(p) => outcome[p].t = "return" /\ outcome[p].v \in STRING

\* a payload made the reshaping code raise and the tool has returned
C1_Witness ==
  \E p \in Procs :
    /\ Returned(p) /\ Got200(p) /\ ~IsRaise(resp[p].body)
    /\ IsRaise(pending[p]) /\ pending[p].type \in {"AttributeError", "IndexError", "TypeError"}

(***************************************************************************)
(* C2: an invocation whose argument fails validation (empty or             *)
(* whitespace-only device_name, guide_id <= 0) returns exactly the         *)
(* validation text and at no point creates a client or issues a GET.       *)
(***************************************************************************)
C2_RejectedCallsNeverTouchNetwork ==
  \A p \in Procs :
    (pc[p] # "idle" /\ Rejectable(p)) =>
      /\ Returned(p)
      /\ outcome[p] = Return(IF op[p] = "search"
                             THEN "Error: Device name cannot be empty"
                             ELSE "Error: guide_id must be a positive integer")
      /\ client[p] = 0
      /\ \A c \in 1..Len(clients) : clients[c].owner # p
      /\ RequestsBy(p) = {}

\* a whitespace-only name and a negative id have been rejected
C2_Witness ==
  \E p \in Procs :
    /\ Returned(p)
    /\ \/ op[p] = "search" /\ arg[p] = S(" \t ")
       \/ op[p] = "guide" /\ arg[p] = I(-5)

(***************************************************************************)
(* C3: an invocation whose argument passes validation issues exactly one   *)
(* GET before it returns, whatever the outcome; never zero, never more     *)
(* than one (nothing is retried).                                          *)
(***************************************************************************)
C3_ExactlyOneGet ==
  \A p \in Procs :
    /\ Cardinality(RequestsBy(p)) <= 1
    /\ (Returned(p) /\ Acceptable(p)) => Cardinality(RequestsBy(p)) = 1

\* a valid invocation returned after its request timed out
C3_Witness ==
  \E p \in Procs :
    Returned(p) /\ Acceptable(p) /\ GotTimeout(p) /\ Cardinality(RequestsBy(p)) = 1

(***************************************************************************)
(* C4: the failure text is fixed by the category of the request's outcome: *)
(* timeout text in both tools; in get_repair_steps 404 gives "Guide {id}   *)
(* not found" and any other non-2xx "API returned status {code}"; in       *)
(* search_device_manual every non-2xx gives the status text; any other     *)
(* fault gives the tool's "Error ...: {message}" text; a 2xx response      *)
(* never gives a status or not-found text.                                 *)
(***************************************************************************)
C4_FailureTextByCategory ==
  \A p \in Procs :
    (Returned(p) /\ Acceptable(p)) =>
      /\ GotTimeout(p) =>
           outcome[p].v = "Error: Request timed out after 30 seconds. Please try again."
      /\ (resp[p].t = "response" /\ ~Got2xx(p)) =>
           outcome[p].v =
             IF op[p] = "guide" /\ resp[p].status = 404
             THEN "Error: Guide " \o ToString(arg[p].v) \o " not found"
             ELSE "Error: API returned status " \o ToString(resp[p].status)
      /\ GotFault(p) =>
           outcome[p].v =
             (IF op[p] = "search" THEN "Error searching for device: "
              ELSE "Error fetching repair steps: ") \o resp[p].e.msg
      /\ Got2xx(p) =>
           /\ ~StartsWith(outcome[p].v, "Error: API returned status")
           /\ ~StartsWith(outcome[p].v, "Error: Guide")
           /\ outcome[p].v # "Error: Request timed out after 30 seconds. Please try again."

\* get_repair_steps has answered a 404 with the not-found text
C4_Witness ==
  \E p \in Procs :
    /\ Returned(p) /\ GotStatus(p, 404) /\ op[p] = "guide"
    /\ outcome[p].v = "Error: Guide 123 not found"

(***************************************************************************)
(* C5: the client an invocation opened is closed whenever the invocation   *)
(* has returned, on every exit path, and a client is only ever referenced  *)
(* and used by the invocation that opened it.                              *)
(***************************************************************************)
C5_ClientReleasedOnEveryExit ==
  /\ \A p \in Procs :
       (Returned(p) /\ client[p] # 0) => clients[client[p]].state = "closed"
  /\ \A c \in 1..Len(clients) :
       /\ Returned(clients[c].owner) => clients[c].state = "closed"
       /\ \A p \in Procs : client[p] = c => p = clients[c].owner
       /\ \A i \in 1..Len(clients[c].requests) :
            clients[c].requests[i].by = clients[c].owner

\* an invocation returned through an except clause while another one is
\* still holding its own open client
C5_Witness ==
  \E p, q \in Procs :
    /\ p # q
    /\ Returned(p) /\ IsRaise(pending[p]) /\ clients[client[p]].state = "closed"
    /\ pc[q] = "awaiting" /\ clients[client[q]].state = "open"

(***************************************************************************)
(* The payloads the shaping properties speak about.                        *)
(***************************************************************************)
\* the members of a JSON list member, <<>> when the key is absent
Members(d, k) == IF Has(d, k) THEN d.v[k].v ELSE <<>>

\* "lines" is absent or a list of objects with string or no text_raw
LinesWellFormed(step) ==
  Has(step, "lines") =>
    /\ step.v["lines"].t = "list"
    /\ \A i \in 1..Len(step.v["lines"].v) :
         LET ln == step.v["lines"].v[i]
         IN ln.t = "dict" /\ (Has(ln, "text_raw") => ln.v["text_raw"].t \in {"str", "none"})

\* "media" is absent or an object whose "data" is absent or a list of objects
MediaWellFormed(step) ==
  Has(step, "media") =>
    /\ step.v["media"].t = "dict"
    /\ Has(step.v["media"], "data") =>
         /\ step.v["media"].v["data"].t = "list"
         /\ \A i \in 1..Len(step.v["media"].v["data"].v) :
              step.v["media"].v["data"].v[i].t = "dict"

\* a 200 response to get_repair_steps carrying a guide object
GuidePayload(p) ==
  /\ Returned(p) /\ op[p] = "guide" /\ Acceptable(p) /\ Got200(p)
  /\ resp[p].body.t = "dict"
  /\ Has(resp[p].body, "steps") => resp[p].body.v["steps"].t = "list"
  /\ \A i \in 1..Len(Members(resp[p].body, "steps")) :
       LET st == Members(resp[p].body, "steps")[i]
       IN st.t = "dict" /\ LinesWellFormed(st) /\ MediaWellFormed(st)

\* the standard URL of the first element of media.data, null without one
FirstImage(step) ==
  IF Has(step, "media") /\ Has(step.v["media"], "data")
     /\ Len(step.v["media"].v["data"].v) > 0
  THEN IF Has(step.v["media"].v["data"].v[1], "standard")
       THEN step.v["media"].v["data"].v[1].v["standard"]
       ELSE None_
  ELSE None_

(***************************************************************************)
(* C6: for a 200 response to get_repair_steps every step is shaped with    *)
(* image = the standard URL of the first element of media.data, and with   *)
(* image null when there is no such element (no media, no data, or an      *)
(* empty data list); the tool returns the shaped guide, not an error.      *)
(***************************************************************************)
C6_ImageOfFirstMediaElement ==
  \A p \in Procs :
    GuidePayload(p) =>
      /\ results[p].t = "dict"
      /\ outcome[p] = Return(Repr(results[p]))
      /\ ~StartsWith(outcome[p].v, "Error")
      /\ Len(results[p].v["steps"].v) = Len(Members(resp[p].body, "steps"))
      /\ \A i \in 1..Len(Members(resp[p].body, "steps")) :
           results[p].v["steps"].v[i].v["image"]
             = FirstImage(Members(resp[p].body, "steps")[i])

(***************************************************************************)
(* C7: the shaped instruction of every step is the text_raw values of its  *)
(* lines in their order, missing and empty ones dropped, joined by exactly *)
(* one space; absent or all-empty lines give the empty string.             *)
(***************************************************************************)
\* the text_raw values that are present and non-empty, built from the end
RECURSIVE KeptTexts(_)
KeptTexts(lines) ==
  IF Len(lines) = 0 THEN <<>>
  ELSE LET ln == lines[Len(lines)]
           front == KeptTexts(SubSeq(lines, 1, Len(lines) - 1))
       IN IF Has(ln, "text_raw") /\ ln.v["text_raw"].t = "str" /\ ln.v["text_raw"].v # ""
          THEN Append(front, ln.v["text_raw"].v)
          ELSE front

RECURSIVE SpaceJoined(_)
SpaceJoined(q) ==
  IF Len(q) = 0 THEN ""
  ELSE IF Len(q) = 1 THEN q[1]
  ELSE SpaceJoined(SubSeq(q, 1, Len(q) - 1)) \o " " \o q[Len(q)]

C7_InstructionJoinsNonEmptyTexts ==
  \A p \in Procs :
    (GuidePayload(p) /\ results[p].t = "dict") =>
      \A i \in 1..Len(Members(resp[p].body, "steps")) :
        LET kept == KeptTexts(Members(Members(resp[p].body, "steps")[i], "lines"))
            ins == results[p].v["steps"].v[i].v["instruction"]
        IN /\ ins = S(SpaceJoined(kept))
           /\ kept = <<>> => ins = S("")
           /\ ~StartsWith(ins.v, " ") /\ ~EndsWith(ins.v, " ")
           /\ ~Contains(ins.v, "  ")

\* lines ["Remove", "", "the screw"] were shaped to "Remove the screw"
C7_Witness ==
  \E p \in Procs :
    /\ GuidePayload(p) /\ results[p].t = "dict"
    /\ Members(resp[p].body, "steps") # <<>>
    /\ Members(Members(resp[p].body, "steps")[1], "lines")
         = <<D([text_raw |-> S("Remove")]), D([text_raw |-> S("")]),
             D([text_raw |-> S("the screw")])>>
    /\ results[p].v["steps"].v[1].v["instruction"] = S("Remove the screw")

(***************************************************************************)
(* C8: for a 200 response to search_device_manual the result has one       *)
(* summary per element of "results", in the response's order; an absent    *)
(* or empty "results" gives the empty sequence, not an error; an item      *)
(* without "image" gets image_url null and the call still succeeds.        *)
(***************************************************************************)
\* a 200 response carrying an object whose "results" is absent or a list of
\* objects, each with no "image" or an "image" object
SearchPayload(p) ==
  /\ Returned(p) /\ op[p] = "search" /\ Acceptable(p) /\ Got200(p)
  /\ resp[p].body.t = "dict"
  /\ Has(resp[p].body, "results") => resp[p].body.v["results"].t = "list"
  /\ \A i \in 1..Len(Members(resp[p].body, "results")) :
       LET it == Members(resp[p].body, "results")[i]
       IN it.t = "dict" /\ (Has(it, "image") => it.v["image"].t = "dict")

Member(d, k) == IF Has(d, k) THEN d.v[k] ELSE None_

C8_OneSummaryPerResultInOrder ==
  \A p \in Procs :
    SearchPayload(p) =>
      LET items == Members(resp[p].body, "results")
      IN /\ results[p].t = "list"
         /\ Len(results[p].v) = Len(items)
         /\ outcome[p] = Return(Repr(results[p]))
         /\ ~StartsWith(outcome[p].v, "Error")
         /\ items = <<>> => outcome[p].v = "[]"
         /\ \A i \in 1..Len(items) :
              /\ results[p].v[i].v["guide_id"] = Member(items[i], "guideid")
              /\ results[p].v[i].v["title"] = Member(items[i], "title")
              /\ results[p].v[i].v["summary"] = Member(items[i], "summary")
              /\ results[p].v[i].v["image_url"] =
                   IF Has(items[i], "image") THEN Member(items[i].v["image"], "standard")
                   ELSE None_

\* two items came back in the response's order, the first one without image
C8_Witness ==
  \E p \in Procs :
    /\ SearchPayload(p)
    /\ Len(Members(resp[p].body, "results")) = 2
    /\ ~Has(Members(resp[p].body, "results")[1], "image")
    /\ results[p].v[1].v["guide_id"] = I(202) /\ results[p].v[1].v["image_url"] = None_
    /\ results[p].v[2].v["guide_id"] = I(101)
    /\ results[p].v[2].v["image_url"] = S("https://img/1.jpg")

(***************************************************************************)
(* C9: interleaved invocations are independent: what an invocation returns *)
(* depends only on its own argument and the response to its own request    *)
(* and equals what it returns when run alone; a step of one invocation     *)
(* leaves every other invocation's state, and every other invocation's     *)
(* client, untouched.                                                      *)
(***************************************************************************)
\* the value the tool hands back when it runs with nothing else going on
RunAlone(o, a, r) ==
  IF (o = "search" /\ OnlyWhitespace(a.v)) \/ (o = "guide" /\ (a.t # "int" \/ a.v <= 0))
  THEN Return(RejectText(o))
  ELSE IF IsRaise(Shaped(o, r)) THEN Handle(o, a, Shaped(o, r)).out
  ELSE Return(Repr(Shaped(o, r)))

Local(p) ==
  <<pc[p], op[p], arg[p], client[p], resp[p], pending[p], results[p],
    outcome[p], log[p]>>

\* the step belongs to invocation p: nothing of another invocation changes
StepOf(p) ==
  /\ \A q \in Procs \ {p} : Local(q)' = Local(q)
  /\ Len(clients') >= Len(clients)
  /\ \A c \in 1..Len(clients) : clients[c].owner # p => clients'[c] = clients[c]
  /\ \A c \in (Len(clients) + 1)..Len(clients') : clients'[c].owner = p

C9_InvocationsIndependent ==
  /\ [](\A p \in Procs :
          Returned(p) => outcome[p] = RunAlone(op[p], arg[p], resp[p]))
  /\ [][\E p \in Procs : StepOf(p)]_vars

\* an invocation that started later has returned while an earlier one is
\* still waiting for its response
C9_Witness ==
  \E p, q \in Procs :
    /\ p # q /\ client[q] # 0 /\ client[q] < client[p]
    /\ Returned(p) /\ Got200(p) /\ pc[q] = "awaiting"

(***************************************************************************)
(* C10 as stated: every call emits exactly two log lines, an entry line    *)
(* naming the tool's argument and then an exit line with the success count *)
(* or the failure category, on every path, rejected calls included.        *)
(***************************************************************************)
IsEntryLine(p, l) ==
  /\ l.level = "INFO"
  /\ IF op[p] = "search"
     THEN l.msg = "Searching for device: " \o Strip(arg[p].v)
     ELSE l.msg = "Fetching repair steps for guide: " \o ToString(arg[p].v)

IsExitLine(l) ==
  \/ l.level = "INFO" /\ StartsWith(l.msg, "Found ") /\ Contains(l.msg, " results for ")
  \/ l.level = "INFO" /\ StartsWith(l.msg, "Successfully fetched guide ")
       /\ EndsWith(l.msg, " steps")
  \/ l.level = "ERROR" /\ StartsWith(l.msg, "Timeout while ")
  \/ l.level = "ERROR" /\ StartsWith(l.msg, "HTTP error ")
  \/ l.level = "ERROR" /\ StartsWith(l.msg, "Unexpected error ")
  \/ l.level = "WARNING" /\ StartsWith(l.msg, "Guide not found: ")

TwoLines(p) ==
  Len(log[p]) = 2 /\ IsEntryLine(p, log[p][1]) /\ IsExitLine(log[p][2])

C10_TwoLogLinesOnEveryPath ==
  \A p \in Procs : Returned(p) => TwoLines(p)

(***************************************************************************)
(* C10 amended: a call that passes validation emits exactly two log lines, *)
(* the entry line and then one exit line; a call rejected by validation    *)
(* emits exactly one line, a warning, and no entry line; the returned      *)
(* value is the one the tool computes without regard to the log.           *)
(***************************************************************************)
C10_TwoLogLinesForValidatedCalls ==
  \A p \in Procs :
    /\ (pc[p] \in {"entered", "awaiting"}) =>
         Len(log[p]) = 1 /\ IsEntryLine(p, log[p][1])
    /\ Returned(p) =>
         /\ Acceptable(p) => TwoLines(p)
         /\ ~Acceptable(p) =>
              /\ Len(log[p]) = 1
              /\ log[p][1].level = "WARNING"
              /\ log[p][1].msg \in {"Empty device name provided",
                                    "Invalid guide_id provided: " \o Str(arg[p])}
         /\ outcome[p] = RunAlone(op[p], arg[p], resp[p])

\* a call returned through the timeout clause with its two lines
C10_Witness ==
  \E p \in Procs :
    /\ Returned(p) /\ Acceptable(p) /\ GotTimeout(p) /\ op[p] = "search"
    /\ TwoLines(p) /\ log[p][2].level = "ERROR"

====
